---------------------------- MODULE Spec2Model ----------------------------
(***************************************************************************)
(* The persistence adapter of the Gun relay (MySQL variant, the file with  *)
(* initMySQL / wireMySQL): the bus delivers put and get messages, the put  *)
(* handler writes every entity of the message to the table gun_data, the   *)
(* get handler looks an entity up and re-injects it onto the bus, and a    *)
(* 30 s interval probes the store and reconnects after a failed probe.     *)
(*                                                                         *)
(* A node is a partial function from field names to values.  A row of      *)
(* gun_data holds the node as JSON text, modelled as the sequence of its   *)
(* <<field, value>> pairs.  Every await of the code is a separate step:    *)
(* the request is in flight between the handler's call and the store's     *)
(* answer, and other events are handled in between.                        *)
(***************************************************************************)
EXTENDS Naturals, Sequences, FiniteSets, TLC

\* ---- bounds of the model ------------------------------------------------
MaxPuts == 2      \* put messages delivered by the bus
MaxGets == 2      \* get messages delivered by the bus
MaxEchoes == 1    \* injections the bus emits again as put messages
MaxProbes == 2    \* keep-alive callbacks that are awaiting the store at once

\* What the environment does in a run: how many put and get messages the bus
\* delivers, how many injections it emits again, how many keep-alive
\* callbacks overlap, whether SIGINT is delivered.  One run is a run of
\* traffic, the other a run of the monitor and of the shutdown.
Scenarios ==
  { [puts |-> MaxPuts, gets |-> MaxGets, echoes |-> MaxEchoes,
     probes |-> MaxProbes - 1, sigint |-> FALSE],
    [puts |-> MaxPuts, gets |-> MaxGets - 1, echoes |-> MaxEchoes,
     probes |-> MaxProbes, sigint |-> TRUE] }

\* ---- program constants --------------------------------------------------
connectionLimit == 10   \* mysql.createPool({ connectionLimit: 10 })

\* ---- the values the bus carries ------------------------------------------
Souls == {"s1", "s2"}
FieldOrder == <<"a", "b">>
NoSoul == ""

EmptyNode == [f \in {} |-> 0]

Obj(fields) == [type |-> "object", fields |-> fields]
NullNode == [type |-> "null", fields |-> EmptyNode]
NumberNode == [type |-> "number", fields |-> EmptyNode]

Entry(soul, node) == [soul |-> soul, node |-> node]
PutMsg(entries) == [hasPut |-> TRUE, put |-> entries]
NoPutMsg == [hasPut |-> FALSE, put |-> <<>>]

\* The put messages the bus delivers in this model: single-field and
\* multi-field nodes, a two-entity batch, and protocol noise.
PutMsgs ==
  { PutMsg(<<Entry("s1", Obj([a |-> 1]))>>),
    PutMsg(<<Entry("s1", Obj([b |-> 2]))>>),
    PutMsg(<<Entry("s1", Obj([a |-> 1, b |-> 1])), Entry("s2", Obj([b |-> 2]))>>),
    PutMsg(<<Entry("s1", NullNode), Entry("s2", NumberNode)>>),
    PutMsg(<<Entry("s2", Obj(EmptyNode))>>),
    NoPutMsg }

\* ---- JSON ------------------------------------------------------------------
RECURSIVE StringifyFrom(_, _)
StringifyFrom(fields, i) ==
  IF i > Len(FieldOrder) THEN <<>>
  ELSE IF FieldOrder[i] \in DOMAIN fields
       THEN <<  <<FieldOrder[i], fields[FieldOrder[i]]>>  >> \o StringifyFrom(fields, i + 1)
       ELSE StringifyFrom(fields, i + 1)

\* JSON.stringify(node): the text of an object, one pair per own field.
JSONstringify(node) == StringifyFrom(node.fields, 1)

LastIndexOf(text, f) ==
  CHOOSE i \in DOMAIN text :
    /\ text[i][1] = f
    /\ \A j \in DOMAIN text : text[j][1] = f => j <= i

\* JSON.parse(text): the object the text denotes (a repeated key keeps its
\* last value).
JSONparse(text) ==
  [f \in {text[i][1] : i \in DOMAIN text} |-> text[LastIndexOf(text, f)][2]]


\* ---- state -----------------------------------------------------------------
VARIABLES
  env,          \* the scenario of the run, one of Scenarios; never changes
  hostSet,      \* process.env.MYSQL_HOST is set
  storeUp,      \* the MySQL server is reachable (environment)
  pc,           \* "start" before `await initMySQL()`, then "running"; after SIGINT
                \* "ending" while db.end() is awaited, "closing" once server.close
                \* was called and the timer armed, "exit0" / "exit1" after
                \* process.exit; "crashed" after a handler's rejection reached
                \* the unhandledRejection handler
  db,           \* the pool handle: "null" or "pool"
  dbConnected,  \* the connectivity flag
  wired,        \* wireMySQL registered the put and get handlers
  gun_data,     \* the table: soul -> JSON text, for the souls that have a row
  writes,       \* put handlers that reached db.execute, in arrival order; each
                \* [batch, st, flag, by, fwd]: st is "inflight", "ok" or "err",
                \* flag the connectivity flag when the message arrived, by the
                \* token of the get message whose injection the put message
                \* came from (0: from a peer), fwd whether the message was
                \* passed on before db.execute was called
  persisted,    \* per soul, the nodes written successfully so far, overlaid
                \* field by field in the order the store applied them
  gets,         \* get handlers that reached db.execute, in arrival order; each
                \* [hash, soul, st, rows, fwd]: st is "lookup", "hit", "miss",
                \* "corrupt" (JSON.parse threw) or "error", fwd as for writes
  inbox,        \* the messages injected with gun._.root.gun._.on('in', ...)
  mon,          \* the keep-alive callbacks that are awaiting the store:
                \* [probing, reconnecting], how many await SELECT 1 and how many
                \* await initMySQL()
  nPut,         \* put messages delivered so far
  nGet,         \* get messages delivered so far
  pingFailed,   \* a keep-alive probe has failed at least once
  toNext        \* calls of this.to.next(msg) made by the two handlers

vars == <<env, hostSet, storeUp, pc, db, dbConnected, wired, gun_data, writes,
          persisted, gets, inbox, mon, nPut, nGet, pingFailed, toNext>>

\* ---- initMySQL ---------------------------------------------------------------
\* The value initMySQL leaves in dbConnected: true after CREATE TABLE
\* succeeded, false from the catch block.
initMySQL(ok) == ok

\* ---- the statements ------------------------------------------------------------
SetRow(table, key, value) ==
  [k \in DOMAIN table \cup {key} |-> IF k = key THEN value ELSE table[k]]

RECURSIVE InsertOnDuplicateKeyUpdate(_, _)
\* INSERT INTO gun_data (gun_key, gun_value) VALUES (?, ?), ...
\* ON DUPLICATE KEY UPDATE gun_value = VALUES(gun_value):
\* every row of the batch becomes the row of its key, whole.
InsertOnDuplicateKeyUpdate(table, batch) ==
  IF batch = <<>> THEN table
  ELSE InsertOnDuplicateKeyUpdate(SetRow(table, Head(batch)[1], Head(batch)[2]), Tail(batch))

\* SELECT gun_value FROM gun_data WHERE gun_key = ?
SelectGunValue(table, soul) ==
  IF soul \in DOMAIN table THEN << table[soul] >> ELSE <<>>

\* ---- gun.on('put') -------------------------------------------------------------
RECURSIVE BuildBatch(_)
\* for (const [soul, node] of Object.entries(msg.put)):
\*   skip a node that is falsy or not an object, else push [soul, JSON.stringify(node)]
BuildBatch(entries) ==
  IF entries = <<>> THEN <<>>
  ELSE IF Head(entries).node.type # "object"
       THEN BuildBatch(Tail(entries))
       ELSE << <<Head(entries).soul, JSONstringify(Head(entries).node)>> >>
              \o BuildBatch(Tail(entries))

\* A handler that returns for a message without put before it passes the
\* message on.
putStepsReturnFirst(msg) ==
  IF ~msg.hasPut THEN <<>>
  ELSE IF BuildBatch(msg.put) = <<>> THEN <<"next">>
  ELSE <<"next", "execute">>

\* What the put handler does with the bus and the store before its await,
\* in order: this.to.next(msg) first, then db.execute unless it returned.
putSteps(msg) ==
  IF ~msg.hasPut THEN <<"next">>
  ELSE IF BuildBatch(msg.put) = <<>> THEN <<"next">>
  ELSE <<"next", "execute">>

\* The put handler up to its await: nothing for a message without put or
\* with an empty batch, else one db.execute in flight.
putHandler(msg, within) ==
  IF ~msg.hasPut THEN writes
  ELSE IF BuildBatch(msg.put) = <<>> THEN writes
  ELSE Append(writes, [batch |-> BuildBatch(msg.put), st |-> "inflight",
                       flag |-> dbConnected, by |-> 0,
                       fwd |-> (putSteps(msg) # <<>> /\ Head(putSteps(msg)) = "next")])

\* catch (err) { console.error(...) } of the put handler: a rethrow that
\* reaches the unhandledRejection handler.
OnPutErrorRethrow(flag) == [pc |-> "crashed", dbConnected |-> flag]

\* catch (err) { console.error(...) } of the put handler: a failed write
\* that marks the store disconnected.
OnPutErrorMarkDown(flag) == [pc |-> pc, dbConnected |-> FALSE]

\* catch (err) { console.error(...) } of the put handler: the process goes
\* on and the connectivity flag keeps its value.
OnPutError(flag) == [pc |-> pc, dbConnected |-> flag]

\* ---- gun.on('get'): the order of its calls ---------------------------------
\* this.to.next(msg) first, then db.execute unless msg.get['#'] is missing.
getSteps(soul) ==
  IF soul = NoSoul THEN <<"next">> ELSE <<"next", "execute">>

Count(steps, what) == Cardinality({k \in DOMAIN steps : steps[k] = what})

\* ---- gun.on('get') -------------------------------------------------------------
\* The injection tagged with the token of the latest get message instead of
\* the token of the message being answered.
ReinjectLatestToken(msg, node) == << [at |-> nGet, soul |-> msg.soul, node |-> node] >>

\* gun._.root.gun._.on('in', { '@': msg['#'], put: { [soul]: node } })
Reinject(msg, node) == << [at |-> msg.hash, soul |-> msg.soul, node |-> node] >>

\* No rows answered with an empty node instead of with nothing.
OnRowsEmptyResult(msg, rows) ==
  IF Len(rows) = 0 THEN Reinject(msg, EmptyNode) ELSE Reinject(msg, JSONparse(rows[1]))

\* After the SELECT answered: nothing for no rows, else the parsed row.
OnRows(msg, rows) ==
  IF Len(rows) = 0 THEN <<>> ELSE Reinject(msg, JSONparse(rows[1]))

\* JSON.parse(rows[0].gun_value) throws for a text that is not JSON.
Parses(text) == \A k \in DOMAIN text : text[k][1] \in {FieldOrder[j] : j \in DOMAIN FieldOrder}

\* A stored text that was cut short: what is left of it is not JSON.
DamagedText == << <<"{", 0>> >>

\* CREATE TABLE IF NOT EXISTS keeps the rows of a table that exists: the
\* table the process starts with is empty, or holds one damaged row.
InitialTables == { [s \in {} |-> <<>>], [s \in {"s2"} |-> DamagedText] }

\* JSON.parse outside the try block: the throw rejects the handler's promise.
OnParseErrorUncaught(msg) == [emit |-> <<>>, pc |-> "crashed"]

\* JSON.parse is inside try { ... } catch (err) { console.error(...) }: the
\* throw is logged, nothing is injected.
OnParseError(msg) == [emit |-> <<>>, pc |-> pc]

\* The put message the bus emits to gun.on('put') when it takes in the
\* injected { '@': ..., put: { [soul]: node } }.
EchoMsg(inj) == PutMsg(<<Entry(inj.soul, Obj(inj.node))>>)

\* The put handler run on the injection of a read, up to its await: the bus
\* hands every put message to gun.on('put'), whatever its origin.
EchoPut(inj) ==
  LET w == putHandler(EchoMsg(inj), FALSE) IN
    [w EXCEPT ![Len(w)].by = inj.at]

\* catch (err) { console.error(...) }: nothing is injected, nothing is thrown.
OnGetError(msg) == [emit |-> <<>>, pc |-> pc]

\* ---- the pool ------------------------------------------------------------------
\* A statement runs once one of the pool's connections is free; statements
\* on different connections are answered in any order.
HasConnection(i) ==
  /\ i \in DOMAIN writes
  /\ writes[i].st = "inflight"
  /\ Cardinality({j \in 1..(i - 1) : writes[j].st = "inflight"}) < connectionLimit

BatchSouls(batch) == {batch[i][1] : i \in DOMAIN batch}
BatchText(batch, s) == batch[CHOOSE i \in DOMAIN batch : batch[i][1] = s][2]

Overlay(p1, p2) ==
  [f \in DOMAIN p1 \cup DOMAIN p2 |-> IF f \in DOMAIN p2 THEN p2[f] ELSE p1[f]]

\* No keep-alive callback is awaiting anything.
Idle == [probing |-> 0, reconnecting |-> 0]

\* ---- Init --------------------------------------------------------------------
Init ==
  /\ env \in Scenarios
  /\ hostSet \in BOOLEAN
  /\ storeUp \in BOOLEAN
  /\ pc = "start"
  /\ db = "null"
  /\ dbConnected = FALSE
  /\ wired = FALSE
  /\ gun_data \in InitialTables
  /\ writes = <<>>
  /\ persisted = [s \in {} |-> EmptyNode]
  /\ gets = <<>>
  /\ inbox = <<>>
  /\ mon = Idle
  /\ nPut = 0
  /\ nGet = 0
  /\ pingFailed = FALSE
  /\ toNext = 0

\* ---- actions -----------------------------------------------------------------
\* The process lives: its handlers and its interval run.  SIGINT removes
\* neither; they run until process.exit.
Alive == pc \in {"running", "ending", "closing"}

\* db.execute rejects: the store is unreachable, or db.end() was called and
\* the pool refuses or drops the statement.
CanReject == ~storeUp \/ pc \in {"ending", "closing"}

\* await initMySQL(); ... wireMySQL(gun)
Startup ==
  /\ pc = "start"
  /\ pc' = "running"
  /\ db' = IF hostSet THEN "pool" ELSE "null"
  /\ dbConnected' = IF hostSet THEN initMySQL(storeUp) ELSE FALSE
  /\ wired' = dbConnected'
  /\ UNCHANGED <<env, hostSet, storeUp, gun_data, writes, persisted, gets, inbox,
                 mon, nPut, nGet, pingFailed, toNext>>

\* The bus delivers a put message; within: it arrives less than a debounce
\* window after the previous message that reached db.execute.
Put(msg, within) ==
  /\ Alive
  /\ nPut < env.puts
  /\ within => (wired /\ writes # <<>> /\ putHandler(msg, within) # writes)
  /\ nPut' = nPut + 1
  /\ writes' = IF wired THEN putHandler(msg, within) ELSE writes
  /\ toNext' = IF wired THEN toNext + Count(putSteps(msg), "next") ELSE toNext
  /\ UNCHANGED <<env, hostSet, storeUp, pc, db, dbConnected, wired, gun_data,
                 persisted, gets, inbox, mon, nGet, pingFailed>>

\* The store answers the statement of put handler i: the rows are written.
PutDone(i) ==
  /\ Alive
  /\ HasConnection(i)
  /\ storeUp
  /\ gun_data' = InsertOnDuplicateKeyUpdate(gun_data, writes[i].batch)
  /\ writes' = [writes EXCEPT ![i].st = "ok"]
  /\ persisted' =
       [s \in DOMAIN persisted \cup BatchSouls(writes[i].batch) |->
          IF s \in BatchSouls(writes[i].batch)
          THEN Overlay(IF s \in DOMAIN persisted THEN persisted[s] ELSE EmptyNode,
                       JSONparse(BatchText(writes[i].batch, s)))
          ELSE persisted[s]]
  /\ UNCHANGED <<env, hostSet, storeUp, pc, db, dbConnected, wired, gets, inbox,
                 mon, nPut, nGet, pingFailed, toNext>>

\* db.execute of put handler i rejects: catch (err) { console.error(...) }.
PutError(i) ==
  /\ Alive
  /\ HasConnection(i)
  /\ CanReject
  /\ writes' = [writes EXCEPT ![i].st = "err"]
  /\ pc' = OnPutError(dbConnected).pc
  /\ dbConnected' = OnPutError(dbConnected).dbConnected
  /\ UNCHANGED <<env, hostSet, storeUp, db, wired, gun_data,
                 persisted, gets, inbox, mon, nPut, nGet, pingFailed, toNext>>

\* The bus delivers a get message for soul (NoSoul: msg.get['#'] is missing).
Get(soul) ==
  /\ Alive
  /\ nGet < env.gets
  /\ nGet' = nGet + 1
  /\ gets' = IF wired /\ soul # NoSoul
             THEN Append(gets, [hash |-> nGet + 1, soul |-> soul,
                                st |-> "lookup", rows |-> <<>>,
                                fwd |-> (Head(getSteps(soul)) = "next")])
             ELSE gets
  /\ toNext' = IF wired THEN toNext + Count(getSteps(soul), "next") ELSE toNext
  /\ UNCHANGED <<env, hostSet, storeUp, pc, db, dbConnected, wired, gun_data, writes,
                 persisted, inbox, mon, nPut, pingFailed>>

Echoes == Cardinality({j \in DOMAIN writes : writes[j].by # 0})

\* The store answers the SELECT of get handler i.  gun._.on('in', ...) runs
\* the bus synchronously; heard: the bus takes the injected node for news
\* (it is not in its graph yet) and emits it as a put message.
GetDone(i, heard) ==
  /\ Alive
  /\ i \in DOMAIN gets
  /\ gets[i].st = "lookup"
  /\ storeUp
  /\ LET rows == SelectGunValue(gun_data, gets[i].soul) IN
       IF Len(rows) = 0 \/ Parses(rows[1])
       THEN /\ gets' = [gets EXCEPT ![i].st = IF Len(rows) = 0 THEN "miss" ELSE "hit",
                                    ![i].rows = rows]
            /\ inbox' = inbox \o OnRows(gets[i], rows)
            /\ pc' = pc
            /\ heard => Echoes < env.echoes
            /\ IF heard /\ OnRows(gets[i], rows) # <<>>
               THEN /\ writes' = EchoPut(OnRows(gets[i], rows)[1])
                    /\ toNext' = toNext + Count(putSteps(EchoMsg(OnRows(gets[i], rows)[1])), "next")
               ELSE UNCHANGED <<writes, toNext>>
       ELSE /\ gets' = [gets EXCEPT ![i].st = "corrupt", ![i].rows = rows]
            /\ inbox' = inbox \o OnParseError(gets[i]).emit
            /\ pc' = OnParseError(gets[i]).pc
            /\ UNCHANGED <<writes, toNext>>
  /\ UNCHANGED <<env, hostSet, storeUp, db, dbConnected, wired, gun_data,
                 persisted, mon, nPut, nGet, pingFailed>>

\* db.execute of get handler i rejects.
GetError(i) ==
  /\ i \in DOMAIN gets
  /\ Alive
  /\ gets[i].st = "lookup"
  /\ CanReject
  /\ gets' = [gets EXCEPT ![i].st = "error"]
  /\ inbox' = inbox \o OnGetError(gets[i]).emit
  /\ pc' = OnGetError(gets[i]).pc
  /\ UNCHANGED <<env, hostSet, storeUp, db, dbConnected, wired, gun_data, writes,
                 persisted, mon, nPut, nGet, pingFailed, toNext>>

\* A keep-alive that probes whenever a pool exists.
ShouldPingAnyPool == db # "null"

\* if (db && dbConnected)
ShouldPing == db # "null" /\ dbConnected

\* setInterval(..., 30000) fires: if (db && dbConnected) await db.execute('SELECT 1').
\* The interval does not wait for the callback of the period before.
KeepAlive ==
  /\ Alive
  /\ mon.probing + mon.reconnecting < env.probes
  /\ ShouldPing
  /\ mon' = [mon EXCEPT !.probing = @ + 1]
  /\ UNCHANGED <<env, hostSet, storeUp, pc, db, dbConnected, wired, gun_data, writes,
                 persisted, gets, inbox, nPut, nGet, pingFailed, toNext>>

\* SELECT 1 answered.
PingOk ==
  /\ Alive
  /\ mon.probing > 0
  /\ storeUp
  /\ mon' = [mon EXCEPT !.probing = @ - 1]
  /\ UNCHANGED <<env, hostSet, storeUp, pc, db, dbConnected, wired, gun_data, writes,
                 persisted, gets, inbox, nPut, nGet, pingFailed, toNext>>

\* SELECT 1 rejected: dbConnected = false; await initMySQL() builds a new
\* pool and awaits CREATE TABLE.
PingFail ==
  /\ Alive
  /\ mon.probing > 0
  /\ CanReject
  /\ dbConnected' = FALSE
  /\ db' = IF hostSet THEN "pool" ELSE db
  /\ mon' = IF hostSet
            THEN [probing |-> mon.probing - 1, reconnecting |-> mon.reconnecting + 1]
            ELSE [mon EXCEPT !.probing = @ - 1]
  /\ pingFailed' = TRUE
  /\ UNCHANGED <<env, hostSet, storeUp, pc, wired, gun_data, writes, persisted,
                 gets, inbox, nPut, nGet, toNext>>

\* CREATE TABLE of the reconnect answered (ok) or rejected: it is rejected
\* when the store is unreachable, and also when the SIGINT handler called
\* db.end() on the pool the reconnect runs on.
ReconnectDone(ok) ==
  /\ Alive
  /\ mon.reconnecting > 0
  /\ IF ok THEN storeUp ELSE CanReject
  /\ dbConnected' = initMySQL(ok)
  /\ mon' = [mon EXCEPT !.reconnecting = @ - 1]
  /\ UNCHANGED <<env, hostSet, storeUp, pc, db, wired, gun_data, writes, persisted,
                 gets, inbox, nPut, nGet, pingFailed, toNext>>

\* The store becomes unreachable / reachable again.
StoreGoesDown ==
  /\ Alive
  /\ storeUp
  /\ storeUp' = FALSE
  /\ UNCHANGED <<env, hostSet, pc, db, dbConnected, wired, gun_data, writes,
                 persisted, gets, inbox, mon, nPut, nGet, pingFailed, toNext>>

StoreComesBack ==
  /\ Alive
  /\ ~storeUp
  /\ storeUp' = TRUE
  /\ UNCHANGED <<env, hostSet, pc, db, dbConnected, wired, gun_data, writes,
                 persisted, gets, inbox, mon, nPut, nGet, pingFailed, toNext>>

\* ---- process.on('SIGINT') -----------------------------------------------------
\* if (db) await db.end(): with a pool the handler waits for db.end() before
\* it does anything else; without one it goes on to server.close and the timer.
Sigint ==
  /\ pc = "running"
  /\ env.sigint
  /\ pc' = IF db # "null" THEN "ending" ELSE "closing"
  /\ UNCHANGED <<env, hostSet, storeUp, db, dbConnected, wired, gun_data, writes,
                 persisted, gets, inbox, mon, nPut, nGet, pingFailed, toNext>>

\* process.exit(code): the process is gone with all it held in memory, its
\* handlers and their outstanding statements included; the table stays.
Exit(code) ==
  /\ pc' = IF code = 0 THEN "exit0" ELSE "exit1"
  /\ db' = "null"
  /\ dbConnected' = FALSE
  /\ wired' = FALSE
  /\ writes' = <<>>
  /\ gets' = <<>>
  /\ inbox' = <<>>
  /\ mon' = Idle
  /\ nPut' = 0
  /\ nGet' = 0
  /\ toNext' = 0
  /\ pingFailed' = FALSE
  /\ UNCHANGED <<env, hostSet, storeUp, gun_data, persisted>>

\* process.on('uncaughtException'): something outside the adapter throws in a
\* callback; process.exit(1).
UncaughtException ==
  /\ Alive
  /\ Exit(1)

\* db.end() resolves: server.close(callback) is called and
\* setTimeout(() => process.exit(1), 10000) is armed.
DbEndResolved ==
  /\ pc = "ending"
  /\ pc' = "closing"
  /\ UNCHANGED <<env, hostSet, storeUp, db, dbConnected, wired, gun_data, writes,
                 persisted, gets, inbox, mon, nPut, nGet, pingFailed, toNext>>

\* db.end() rejects: the async handler's promise rejects, the
\* unhandledRejection handler calls process.exit(1).
DbEndRejected ==
  /\ pc = "ending"
  /\ Exit(1)

\* The callback of server.close runs: process.exit(0).
ServerClosed ==
  /\ pc = "closing"
  /\ Exit(0)

\* The 10 s timer fires before the callback of server.close: process.exit(1).
ForceExit ==
  /\ pc = "closing"
  /\ Exit(1)

Next ==
  \/ Startup
  \/ \E msg \in PutMsgs, within \in BOOLEAN : Put(msg, within)
  \/ \E i \in 1..(MaxPuts + MaxEchoes) : PutDone(i)
  \/ \E i \in 1..(MaxPuts + MaxEchoes) : PutError(i)
  \/ \E soul \in Souls \cup {NoSoul} : Get(soul)
  \/ \E i \in 1..MaxGets, heard \in BOOLEAN : GetDone(i, heard)
  \/ \E i \in 1..MaxGets : GetError(i)
  \/ KeepAlive
  \/ PingOk
  \/ PingFail
  \/ \E ok \in BOOLEAN : ReconnectDone(ok)
  \/ StoreGoesDown
  \/ StoreComesBack
  \/ UncaughtException
  \/ Sigint
  \/ DbEndResolved
  \/ DbEndRejected
  \/ ServerClosed
  \/ ForceExit

Spec == Init /\ [][Next]_vars

\* ---- what the claims speak of ------------------------------------------------
InFlight == {i \in DOMAIN writes : writes[i].st = "inflight"}

WritesFor(s) == {i \in DOMAIN writes : s \in BatchSouls(writes[i].batch)}

\* The node put handler i sent for soul s.
SentNode(i, s) == JSONparse(BatchText(writes[i].batch, s))

\* What a read of soul s returns: the parsed row.
StoredNode(s) == JSONparse(gun_data[s])

\* Field f of soul s is in the table, or in a statement still in flight.
Held(s, f) ==
  \/ s \in DOMAIN gun_data /\ f \in DOMAIN StoredNode(s)
  \/ \E j \in InFlight : s \in BatchSouls(writes[j].batch) /\ f \in DOMAIN SentNode(j, s)

LastWriteFor(s) == CHOOSE i \in WritesFor(s) : \A j \in WritesFor(s) : j <= i

RECURSIVE ExpectedUpTo(_, _)
\* The field-wise last-write-wins union, by arrival, of the nodes sent for s.
ExpectedUpTo(s, n) ==
  IF n = 0 THEN EmptyNode
  ELSE IF n \in WritesFor(s)
       THEN Overlay(ExpectedUpTo(s, n - 1), SentNode(n, s))
       ELSE ExpectedUpTo(s, n - 1)

Expected(s) == ExpectedUpTo(s, Len(writes))

InjectionsFor(h) == {k \in DOMAIN inbox : inbox[k].at = h}

\* ---- C1 ------------------------------------------------------------------------
\* C1 (field-wise merge): after partial snapshots were persisted successfully
\* through the put path, a read of the id returns them overlaid field by field
\* in the order they were persisted; no field written earlier is lost.
C1_FieldWiseMerge ==
  \A s \in DOMAIN persisted :
    s \in DOMAIN gun_data /\ StoredNode(s) = persisted[s]

\* ---- C2 ------------------------------------------------------------------------
\* C2 (no silent drop): when the store write of a mutation fails, each of its
\* fields is still present in the data pending or in flight for that id, or in
\* the store.
C2_NoSilentDrop ==
  \A i \in DOMAIN writes :
    writes[i].st = "err" =>
      \A s \in BatchSouls(writes[i].batch) :
        \A f \in DOMAIN SentNode(i, s) : Held(s, f)

\* ---- C3 ------------------------------------------------------------------------
\* C3 (outage resilience): once connectivity is back and nothing is left
\* pending or in flight, every field of a mutation that arrived while the
\* connectivity flag was false is stored with its last-write-wins value.
C3_OutageResilience ==
  (storeUp /\ dbConnected /\ InFlight = {}) =>
    \A i \in DOMAIN writes :
      ~writes[i].flag =>
        \A s \in BatchSouls(writes[i].batch) :
          \A f \in DOMAIN SentNode(i, s) :
            /\ s \in DOMAIN gun_data
            /\ f \in DOMAIN StoredNode(s)
            /\ StoredNode(s)[f] = Expected(s)[f]

\* ---- C4 ------------------------------------------------------------------------
\* C4 (per-id serialization): for every entity id at most one store write of
\* this process is executing at any moment.
C4_PerIdSerialization ==
  \A s \in Souls :
    Cardinality({i \in WritesFor(s) : HasConnection(i)}) <= 1

\* ---- C5 ------------------------------------------------------------------------
\* C5 (per-entity write ordering): when every store write has been answered
\* and none failed, each field of the mutation that arrived last for an id is
\* stored with that mutation's value, whatever the order of the answers.
C5_WriteOrdering ==
  (InFlight = {} /\ \A i \in DOMAIN writes : writes[i].st = "ok") =>
    \A s \in Souls :
      WritesFor(s) # {} =>
        /\ s \in DOMAIN gun_data
        /\ \A f \in DOMAIN SentNode(LastWriteFor(s), s) :
             /\ f \in DOMAIN StoredNode(s)
             /\ StoredNode(s)[f] = SentNode(LastWriteFor(s), s)[f]

\* ---- C6 ------------------------------------------------------------------------
\* C6 (coalescing): a mutation that arrives less than a debounce window after
\* the previous one for the same id does not get a store call of its own.
C6_Coalescing ==
  [][\A msg \in PutMsgs :
       Put(msg, TRUE) =>
         BatchSouls(writes'[Len(writes')].batch)
           \cap BatchSouls(writes[Len(writes)].batch) = {}]_vars

\* ---- C7 ------------------------------------------------------------------------
\* C7 (read hit): a read request whose lookup found a row has exactly one
\* injection, and that injection carries the request's correlation token, the
\* requested id and the snapshot the lookup read.
C7_ReadHit ==
  \A i \in DOMAIN gets :
    gets[i].st = "hit" =>
      /\ Cardinality(InjectionsFor(gets[i].hash)) = 1
      /\ \A k \in InjectionsFor(gets[i].hash) :
           /\ inbox[k].soul = gets[i].soul
           /\ inbox[k].node = JSONparse(gets[i].rows[1])

\* Two requests were outstanding at once, both found a row, and the second
\* was answered first.
C7_Witness ==
  /\ Len(gets) = 2
  /\ gets[1].st = "hit" /\ gets[2].st = "hit"
  /\ Len(inbox) = 2
  /\ inbox[1].at = gets[2].hash
  /\ inbox[1].node # EmptyNode

\* ---- C8 ------------------------------------------------------------------------
\* C8 (read miss): a read request whose lookup found no row, and a request
\* that carries no entity id, have no injection.
C8_ReadMiss ==
  \A h \in 1..nGet :
    (\A i \in DOMAIN gets : gets[i].hash = h => gets[i].st = "miss")
      => InjectionsFor(h) = {}

\* With the handlers registered, one request missed and one carried no id.
C8_Witness ==
  /\ wired
  /\ \E i \in DOMAIN gets : gets[i].st = "miss"
  /\ \E h \in 1..nGet : \A i \in DOMAIN gets : gets[i].hash # h

\* ---- C9 ------------------------------------------------------------------------
\* C9 (read during outage): a read request handled while the connectivity flag
\* is false produces no injection, and neither does one whose lookup failed
\* because the store was unreachable; the failure does not reach the process:
\* the unhandledRejection handler never ends it.
C9_ReadDuringOutage ==
  [][/\ ~dbConnected => inbox' = inbox
     /\ \A i \in DOMAIN gets' :
          gets'[i].st = "error" =>
            /\ \A k \in DOMAIN inbox' : inbox'[k].at # gets'[i].hash
            /\ pc' # "crashed"]_vars

\* ---- C10 -----------------------------------------------------------------------
\* C10 (reconnect): after a failed probe, as long as the connectivity flag is
\* false the monitor keeps trying: a reconnect attempt is in progress, or the
\* next firing of the interval will talk to the store again.  (Where this
\* fails the flag stays false for good, however long the store is reachable.)
C10_Reconnect ==
  (pc = "running" /\ pingFailed /\ ~dbConnected) =>
    (mon.reconnecting > 0 \/ mon.probing > 0 \/ ENABLED KeepAlive)

\* ---- C11 -----------------------------------------------------------------------
\* SIGINT was handled and the process has not exited yet.
ShuttingDown == pc \in {"ending", "closing"}

\* C11 (drain on shutdown): once the SIGINT handler has called db.end(), every
\* entity with a mutation that is not durable has had an upsert attempted for
\* it: a write that failed was followed by another store call for the entity.
C11_DrainOnShutdown ==
  (ShuttingDown /\ db # "null") =>
    \A i \in DOMAIN writes :
      writes[i].st = "err" =>
        \A s \in BatchSouls(writes[i].batch) : \E j \in WritesFor(s) : j > i

\* ---- C12 -----------------------------------------------------------------------
\* C12 (noise discard): no store call is made for a node that carries no
\* fields, and no row is created for one.
C12_NoiseDiscard ==
  \A i \in DOMAIN writes :
    \A s \in BatchSouls(writes[i].batch) : BatchText(writes[i].batch, s) # <<>>

\* ---- C13 -----------------------------------------------------------------------
\* C13 (corrupt stored payload): a read request whose row could not be parsed
\* has no injection, and the parse error never reaches the process-exit path.
C13_CorruptStoredPayload ==
  \A i \in DOMAIN gets :
    gets[i].st = "corrupt" => (InjectionsFor(gets[i].hash) = {} /\ pc # "crashed")

\* A request met the damaged row and the process went on to answer another
\* request with a row.
C13_Witness ==
  /\ pc = "running"
  /\ Len(gets) = 2
  /\ gets[1].st = "corrupt" /\ gets[2].st = "hit"

\* ---- C14 -----------------------------------------------------------------------
\* A store operation has failed: the initial connect, an upsert, a lookup,
\* a probe or a reconnect.
StoreFailure ==
  \/ pc # "start" /\ hostSet /\ ~wired /\ ~ShuttingDown /\ pc \notin {"exit0", "exit1"}
  \/ \E i \in DOMAIN writes : writes[i].st = "err"
  \/ \E i \in DOMAIN gets : gets[i].st = "error"
  \/ pingFailed

\* C14 (degrade, do not crash): after any store failure the process has not
\* been ended by the unhandledRejection / uncaughtException handlers.
C14_DegradeDoNotCrash == StoreFailure => pc # "crashed"

\* An upsert, a lookup, a probe and the reconnect after it have all failed,
\* and the process is running and still takes put messages.
C14_Witness ==
  /\ pc = "running"
  /\ \E i \in DOMAIN writes : writes[i].st = "err"
  /\ \E i \in DOMAIN gets : gets[i].st = "error"
  /\ pingFailed /\ ~dbConnected /\ mon = Idle
  /\ ENABLED Put(NoPutMsg, FALSE)

\* ---- C15 -----------------------------------------------------------------------
\* C15 (flag gating): every store call of the write path was issued while the
\* connectivity flag was true.
C15_FlagGating == \A i \in DOMAIN writes : writes[i].flag

\* ---- C16 -----------------------------------------------------------------------
\* C16 (flag ownership): while the process lives, the connectivity flag changes
\* only in the initial connect, in a failed probe and in the reconnect after
\* it; no step of the put or get handlers changes it.
C16_FlagOwnership ==
  [][(dbConnected' # dbConnected /\ pc' \notin {"exit0", "exit1"})
       => (Startup \/ PingFail \/ \E ok \in BOOLEAN : ReconnectDone(ok))]_vars

\* A put and a get have failed and the flag is still true.
C16_Witness ==
  /\ pc = "running"
  /\ dbConnected
  /\ \E i \in DOMAIN writes : writes[i].st = "err"
  /\ \E i \in DOMAIN gets : gets[i].st = "error"

\* ---- C17 -----------------------------------------------------------------------
\* C17 (non-blocking dispatch): every put and get message the handlers were
\* given was passed on exactly once, and every handler that called the store
\* had passed its message on before.
C17_NonBlockingDispatch ==
  /\ wired => toNext = nPut + nGet + Echoes
  /\ \A i \in DOMAIN writes : writes[i].fwd
  /\ \A i \in DOMAIN gets : gets[i].fwd

\* All messages of the run were delivered: one put failed, one put or get
\* returned early, one injection came back as a put message.
C17_Witness ==
  /\ wired
  /\ nPut = MaxPuts /\ nGet = MaxGets /\ Echoes = 1
  /\ \E i \in DOMAIN writes : writes[i].st = "err"
  /\ Len(gets) < nGet

\* ---- C18 -----------------------------------------------------------------------
\* C18 (shutdown terminates): once SIGINT is handled the forced-exit timer is
\* armed, so that the process can always exit whatever db.end() and
\* server.close do.
C18_ShutdownTerminates == ShuttingDown => ENABLED ForceExit

\* ---- C19 -----------------------------------------------------------------------
\* C19 (startup-disconnected is permanent): if the initial connect left the
\* flag false, the handlers are not registered, the probe never runs, the flag
\* stays false and no store call is made for any put or get.
C19_StartupDisconnectedIsPermanent ==
  (pc \in {"running", "ending", "closing"} /\ ~wired) =>
    /\ ~dbConnected
    /\ mon = Idle /\ ~pingFailed
    /\ writes = <<>> /\ gets = <<>> /\ inbox = <<>>
    /\ toNext = 0

\* The host is configured, the store came back after the failed initial
\* connect, and all put and get messages of the run were delivered.
C19_Witness ==
  /\ pc = "running" /\ ~wired
  /\ hostSet /\ storeUp
  /\ nPut = MaxPuts /\ nGet = MaxGets

\* ---- C20 -----------------------------------------------------------------------
\* C20 (reads do not write): no store write is issued on behalf of a read
\* request.
C20_ReadsDoNotWrite == \A i \in DOMAIN writes : writes[i].by = 0

=============================================================================
